---- MODULE Spec2Model ----
(***************************************************************************)
(* Model of the timeflip command line tool (src/bin/timeflip.rs): the     *)
(* commands of Command::run, with the history command's cache             *)
(* reconciliation modelled step by step between its await points.         *)
(*                                                                         *)
(* One process run is: Launch (options parsed, cube connected), the steps *)
(* of the selected command, then Exit.  The cache file and the cube's      *)
(* history log outlive a run; everything else is per-run state.            *)
(***************************************************************************)
EXTENDS Integers, Sequences, FiniteSets

\* Largest entry id the cube records in the model.
MaxId == 3

\* Most events the cube sends on the event stream in one run of the model.
MaxEvents == 3

\* Payload of a history entry: "a" while the facet is still up (the entry
\* may still change on the cube), "b" once it is final.
Payloads == {"a", "b"}

ConfigCommands == {"history", "sync", "write-config"}

SimpleCommands ==
    {"battery", "facet", "lock", "unlock", "pause", "unpause", "status",
     "sync-state", "time", "time --set"}

Commands == ConfigCommands \cup SimpleCommands

\* Commands that print the value they read.
PrintingCommands == {"battery", "facet", "status", "sync-state", "time", "time --set"}

\* The flags of the notify command, in the order lines 184-195 test them.
NotifyFlags == <<"battery", "facet", "double_tap", "log_event">>

\* enum Event of the library, as matched in lines 200-214.
EventKinds == {"BatteryLevel", "Event", "Facet", "DoubleTap", "Disconnected"}

\* Option<u32>: the empty set is None, {k} is Some(k).
OptionIds == {{}} \cup {{k} : k \in 0..MaxId}

VARIABLES
    device,       \* the cube's history log: entries with ids 1..Len(device)
    file,         \* the --update cache file: [kind, entries]
    pc,           \* position of the process
    cmd,          \* the subcommand
    config,       \* TRUE iff a configuration was supplied (--config)
    update_file,  \* TRUE iff --update was given
    start_with,   \* --start-with, an Option<u32>
    resume,       \* the shadowed start_with of line 116: the id to fetch from
    cached,       \* the cache as loaded and sorted (entries before line 140)
    entries,      \* the local `entries`
    update,       \* the batch read_history_since returned
    readOutcome,  \* how reading the cache file went in this run
    result,       \* the result of Command::run
    calls,        \* device calls made in this run, in order
    io,           \* cache file operations made in this run, in order
    warned,       \* TRUE iff "cannot update entries file" was printed
    printed,      \* what the command printed to stdout
    fresh,        \* history: the cache file was absent or empty at the start
    skipAhead,    \* history: some run was given --start-with above its cache
    exit,         \* what main returned: "none" while select! is pending
    winner,       \* the branch of select! that completed first
    bg,           \* the background task of the bluetooth session
    logged,       \* the entries written to the log, in order
    subs,         \* notify: the enabled flags
    armed,        \* notify: the notification classes armed on the cube
    feed,         \* notify: the events that arrived on the event stream
    stream        \* notify: "closed" until event_stream() has returned

vars ==
    <<device, file, pc, cmd, config, update_file, start_with, resume, cached,
      entries, update, readOutcome, result, calls, io, warned, printed,
      fresh, skipAhead, exit, winner, bg, logged, subs, armed, feed, stream>>

\* The state of select! and of the log.
loopVars == <<exit, winner, bg, logged>>

\* The state of the notify command.
notifyVars == <<subs, armed, feed, stream>>

runVars ==
    <<cmd, config, update_file, start_with, resume, cached, entries, update,
      readOutcome, result, calls, io, warned, printed, loopVars, notifyVars>>

----
\* Helpers on entry lists.

Ids(s) == {s[i].id : i \in 1..Len(s)}

MaxOf(S) == IF S = {} THEN 0 ELSE CHOOSE m \in S : \A x \in S : x <= m

RECURSIVE InsertById(_, _)
InsertById(s, e) ==
    IF s = <<>> THEN <<e>>
    ELSE IF s[Len(s)].id <= e.id THEN Append(s, e)
    ELSE Append(InsertById(SubSeq(s, 1, Len(s) - 1), e), s[Len(s)])

\* entries.sort_by(|a, b| a.id.cmp(&b.id)): a stable sort by id.
RECURSIVE SortById(_)
SortById(s) ==
    IF s = <<>> THEN <<>>
    ELSE InsertById(SortById(SubSeq(s, 1, Len(s) - 1)), s[Len(s)])

\* entries.last().map(|e| e.id)
LastId(s) == IF s = <<>> THEN {} ELSE {s[Len(s)].id}

OrElse(opt, alt) == IF opt # {} THEN opt ELSE alt

UnwrapOr(opt, default) == IF opt = {} THEN default ELSE CHOOSE k \in opt : TRUE

\* Mutant: the latest cached id takes precedence over --start-with.
ResumePoint_CacheFirst(sw, es) == UnwrapOr(OrElse(LastId(es), sw), 0)

\* start_with.or_else(|| entries.last().map(|e| e.id)).unwrap_or(0)
ResumePoint(sw, es) == UnwrapOr(OrElse(sw, LastId(es)), 0)

\* start_with.unwrap_or(0): no cache file, or none given
ResumeNoCache(sw) == UnwrapOr(sw, 0)

\* update.iter().map(|e| e.id).collect::<Vec<_>>()
NewIds(batch) == [i \in 1..Len(batch) |-> batch[i].id]

Contains(v, x) == \E i \in 1..Len(v) : v[i] = x

\* Mutant: nothing is removed from the cached entries.
Retain_KeepAll(es, new_ids) == es

\* Mutant: the predicate of retain is inverted.
Retain_Inverted(es, new_ids) ==
    LET Keep(e) == Contains(new_ids, e.id)
    IN  SelectSeq(es, Keep)

\* entries.retain(|entry| !new_ids.contains(&entry.id))
Retain(es, new_ids) ==
    LET Keep(e) == ~Contains(new_ids, e.id)
    IN  SelectSeq(es, Keep)

\* Mutant: the batch replaces the cached entries.
Reconcile_DropCache(es, batch) == batch

\* lines 139-141: retain, then append the batch
Reconcile(es, batch) == Retain(es, NewIds(batch)) \o batch

\* TimeFlip::read_history_since(id): the cube's entries after `id`, ascending;
\* with resend the cube sends the entry `id` itself again.
ReadHistorySince(log, id, resend) ==
    LET After(e) == IF resend THEN e.id >= id ELSE e.id > id
    IN  SelectSeq(log, After)

\* Mutant: the configuration is not checked.
RequireConfig_Always(cfg) == TRUE

\* config.ok_or(format_err!("config is mandatory for this command"))? passes
\* iff a configuration was supplied.
RequireConfig(cfg) == cfg

\* Mutant: a cache file that does not parse is taken for an empty cache.
ReadOutcome_Lenient(kind) ==
    CASE kind = "json" -> "ok"
      [] kind = "corrupt" -> "not_found"
      [] kind = "absent" -> "not_found"
      [] OTHER -> "io_error"

\* Mutant: a missing cache file is an error like any other read error.
ReadOutcome_NotFoundFatal(kind) ==
    CASE kind = "json" -> "ok"
      [] kind = "corrupt" -> "parse_error"
      [] OTHER -> "io_error"

\* The arms of `match fs::read_to_string(file).await` with the parse of line
\* 119: what reading a cache file of this kind comes to.
ReadOutcome(kind) ==
    CASE kind = "json" -> "ok"
      [] kind = "corrupt" -> "parse_error"
      [] kind = "absent" -> "not_found"
      [] OTHER -> "io_error"

\* Mutant: the command goes on after select! has completed.
Polled_Always == TRUE

\* select! polls the command's future until one branch has completed; the
\* future is dropped with the select! expression.
Polled == exit = "none"

\* Mutant: the result of the command is dropped (`res?` forgotten).
ExitStatus_IgnoreResult(branch, res) == "ok"

\* Mutant: every branch's result is returned with `?`.
ExitStatus_AnyError(branch, res) == IF res = "ok" THEN "ok" ELSE "error"

\* What main returns after the branch's handler: only the command's result
\* is returned with `?` (line 277); the other handlers fall through to Ok(()).
ExitStatus(branch, res) ==
    IF branch = "command" /\ res # "ok" THEN "error" ELSE "ok"

SubOrder_All(flags) == NotifyFlags

\* Lines 184-195: the enabled flags in the order their subscriptions are made.
SubOrder(flags) ==
    LET Enabled(f) == f \in flags
    IN  SelectSeq(NotifyFlags, Enabled)

SubscribeOp_Swapped(flag) ==
    CASE flag = "battery" -> "subscribe_facet"
      [] flag = "facet" -> "subscribe_battery_level"
      [] flag = "double_tap" -> "subscribe_double_tap"
      [] OTHER -> "subscribe_events"

\* Lines 184-195: the subscription call made for a flag.
SubscribeOp(flag) ==
    CASE flag = "battery" -> "subscribe_battery_level"
      [] flag = "facet" -> "subscribe_facet"
      [] flag = "double_tap" -> "subscribe_double_tap"
      [] OTHER -> "subscribe_events"

\* The notification class a subscription call arms on the cube.
Arms(op) ==
    CASE op = "subscribe_battery_level" -> "BatteryLevel"
      [] op = "subscribe_facet" -> "Facet"
      [] op = "subscribe_double_tap" -> "DoubleTap"
      [] OTHER -> "Event"

\* Lines 200-213: what is printed for an event.
Handle(e) ==
    CASE e = "BatteryLevel" -> "Battery Level"
      [] e = "Event" -> "event"
      [] e = "Facet" -> "Currently Up"
      [] e = "DoubleTap" -> "Facet has"
      [] OTHER -> "TimeFlip has disconnected"

EndsStream_Never(e) == FALSE

\* Lines 210-213: the arm that breaks out of the loop.
EndsStream(e) == e = "Disconnected"

\* The device operation a single-call command makes.
DeviceOp(c) ==
    CASE c = "battery" -> "battery_level"
      [] c = "facet" -> "facet"
      [] c = "lock" -> "lock"
      [] c = "unlock" -> "unlock"
      [] c = "pause" -> "pause"
      [] c = "unpause" -> "unpause"
      [] c = "status" -> "system_status"
      [] c = "sync-state" -> "sync_state"
      [] c = "sync" -> "sync"
      [] c = "time" -> "time"
      [] c = "time --set" -> "set_time"
      [] c = "write-config" -> "write_config"
      [] OTHER -> "none"

Call(op, arg) == [op |-> op, arg |-> arg]

JsonFile(es) == [kind |-> "json", entries |-> es]
AbsentFile == [kind |-> "absent", entries |-> <<>>]
CorruptFile == [kind |-> "corrupt", entries |-> <<>>]
UnreadableFile == [kind |-> "unreadable", entries |-> <<>>]

\* Ascending, id-unique entry lists over the ids 1..MaxId.
RECURSIVE AscendingLists(_)
AscendingLists(n) ==
    IF n = 0 THEN {<<>>}
    ELSE LET shorter == AscendingLists(n - 1)
         IN  shorter \cup
             {Append(s, [id |-> n, data |-> d]) : s \in shorter, d \in Payloads}

----
\* The state before the first run.

Init ==
    /\ device = <<>>
    /\ file \in {AbsentFile, CorruptFile, UnreadableFile}
                \cup {JsonFile(s) : s \in AscendingLists(MaxId)}
    /\ pc = "idle"
    /\ cmd = "none"
    /\ config = FALSE
    /\ update_file = FALSE
    /\ start_with = {}
    /\ resume = 0
    /\ cached = <<>>
    /\ entries = <<>>
    /\ update = <<>>
    /\ readOutcome = "none"
    /\ result = "running"
    /\ calls = <<>>
    /\ io = <<>>
    /\ warned = FALSE
    /\ printed = <<>>
    /\ fresh = (file.kind = "absent" \/ file = JsonFile(<<>>))
    /\ skipAhead = FALSE
    /\ exit = "none"
    /\ winner = "none"
    /\ bg = "running"
    /\ logged = <<>>
    /\ subs = {}
    /\ armed = {}
    /\ feed = <<>>
    /\ stream = "closed"

----
\* The cube, between runs of the tool: it records a new entry, or finishes
\* the entry of the facet that is up.  (The tool reads the log only in the
\* fetch step, so a change at any other moment is a change between runs.)

DeviceRecord ==
    /\ pc = "idle"
    /\ Len(device) < MaxId
    /\ device' = Append(device, [id |-> Len(device) + 1, data |-> "a"])
    /\ UNCHANGED <<file, pc, runVars, fresh, skipAhead>>

DeviceUpdateLast ==
    /\ pc = "idle"
    /\ device # <<>>
    /\ device[Len(device)].data = "a"
    /\ device' = [device EXCEPT ![Len(device)].data = "b"]
    /\ UNCHANGED <<file, pc, runVars, fresh, skipAhead>>

----
\* main: options parsed, configuration read, cube connected (lines 254-265).

Launch ==
    /\ pc = "idle"
    /\ \E c \in Commands, cfg \in BOOLEAN, uf \in BOOLEAN, sw \in OptionIds :
          /\ (c # "history") => (uf = FALSE /\ sw = {})
          /\ cmd' = c
          /\ config' = cfg
          /\ update_file' = uf
          /\ start_with' = sw
    /\ pc' = "cmd"
    /\ logged' = <<"info: connected">>
    /\ UNCHANGED <<device, file, resume, cached, entries, update, readOutcome,
                   result, calls, io, warned, printed, fresh, skipAhead>>
    /\ UNCHANGED <<exit, winner, bg, notifyVars>>

----
\* Command::run, History (lines 108-171).

\* Lines 114-116 and 133-135: the configuration check, then either the read
\* of the cache file is awaited or there is no cache file.
HistoryBegin ==
    /\ pc = "cmd"
    /\ Polled
    /\ cmd = "history"
    /\ IF ~RequireConfig(config)
       THEN /\ result' = "err_config"
            /\ pc' = "done"
            /\ UNCHANGED <<resume, entries, cached>>
       ELSE IF update_file
            THEN /\ pc' = "read_cache"
                 /\ UNCHANGED <<result, resume, entries, cached>>
            ELSE /\ resume' = ResumeNoCache(start_with)
                 /\ entries' = <<>>
                 /\ cached' = <<>>
                 /\ pc' = "fetch"
                 /\ UNCHANGED result
    /\ UNCHANGED <<device, file, cmd, config, update_file, start_with, update,
                   readOutcome, calls, io, warned, printed, fresh, skipAhead>>
    /\ UNCHANGED <<loopVars, notifyVars>>

\* Lines 117-132: fs::read_to_string resolves.
HistoryReadCache ==
    /\ pc = "read_cache"
    /\ Polled
    /\ io' = Append(io, "read")
    /\ readOutcome' = ReadOutcome(file.kind)
    /\ CASE readOutcome' = "ok" ->
              LET sorted == SortById(file.entries)
              IN  /\ entries' = sorted
                  /\ cached' = sorted
                  /\ resume' = ResumePoint(start_with, sorted)
                  /\ pc' = "fetch"
                  /\ UNCHANGED result
         [] readOutcome' = "parse_error" ->
              /\ result' = "err_parse"
              /\ pc' = "done"
              /\ UNCHANGED <<entries, cached, resume>>
         [] readOutcome' = "not_found" ->
              /\ resume' = ResumeNoCache(start_with)
              /\ entries' = <<>>
              /\ cached' = <<>>
              /\ pc' = "fetch"
              /\ UNCHANGED result
         [] OTHER ->
              /\ result' = "err_io"
              /\ pc' = "done"
              /\ UNCHANGED <<entries, cached, resume>>
    /\ skipAhead' = (skipAhead \/ (/\ pc' = "fetch"
                                   /\ start_with # {}
                                   /\ UnwrapOr(start_with, 0) > MaxOf(Ids(cached'))))
    /\ UNCHANGED <<device, file, cmd, config, update_file, start_with, update,
                   calls, warned, printed, fresh>>
    /\ UNCHANGED <<loopVars, notifyVars>>

\* Lines 154-170: the view over the in-memory entries is printed.
Render(es) == <<[kind |-> "history", entries |-> es]>>

\* Mutant: a failed read_history_since is remembered and the cache file is
\* written all the same.
HistoryFetch_WriteOnError ==
    /\ pc = "fetch"
    /\ Polled
    /\ calls' = Append(calls, Call("read_history_since", resume))
    /\ \/ /\ result' = "err_transport"
          /\ pc' = IF update_file THEN "write" ELSE "done"
          /\ UNCHANGED <<update, entries, printed>>
       \/ \E resend \in BOOLEAN :
            /\ update' = ReadHistorySince(device, resume, resend)
            /\ entries' = Reconcile(entries, update')
            /\ IF update_file
               THEN /\ pc' = "write"
                    /\ UNCHANGED <<result, printed>>
               ELSE /\ printed' = Render(entries')
                    /\ result' = "ok"
                    /\ pc' = "done"
    /\ UNCHANGED <<device, file, cmd, config, update_file, start_with, resume,
                   cached, readOutcome, io, warned, fresh, skipAhead>>
    /\ UNCHANGED <<loopVars, notifyVars>>

\* Lines 137-141: read_history_since resolves; on success the batch is
\* merged into the entries.  Without --update the command renders and ends.
HistoryFetch ==
    /\ pc = "fetch"
    /\ Polled
    /\ calls' = Append(calls, Call("read_history_since", resume))
    /\ \/ /\ result' = "err_transport"
          /\ pc' = "done"
          /\ UNCHANGED <<update, entries, printed>>
       \/ \E resend \in BOOLEAN :
            /\ update' = ReadHistorySince(device, resume, resend)
            /\ entries' = Reconcile(entries, update')
            /\ IF update_file
               THEN /\ pc' = "write"
                    /\ UNCHANGED <<result, printed>>
               ELSE /\ printed' = Render(entries')
                    /\ result' = "ok"
                    /\ pc' = "done"
    /\ UNCHANGED <<device, file, cmd, config, update_file, start_with, resume,
                   cached, readOutcome, io, warned, fresh, skipAhead>>
    /\ UNCHANGED <<loopVars, notifyVars>>

\* Mutant: a failure to write the cache file ends the command with the error.
HistoryWrite_Fatal ==
    /\ pc = "write"
    /\ Polled
    /\ \/ /\ file' = JsonFile(entries)
          /\ io' = Append(io, "write")
          /\ printed' = Render(entries)
          /\ result' = "ok"
          /\ UNCHANGED warned
       \/ /\ file' \in {file, CorruptFile}
          /\ io' = Append(io, "write")
          /\ warned' = TRUE
          /\ result' = "err_io"
          /\ UNCHANGED printed
    /\ pc' = "done"
    /\ UNCHANGED <<device, cmd, config, update_file, start_with, resume, cached,
                   entries, update, readOutcome, calls, fresh, skipAhead>>
    /\ UNCHANGED <<loopVars, notifyVars>>

\* Lines 143-171: the cache file is written (serde_json::to_vec, fs::write),
\* a failure is only reported; then the entries are rendered.  A failed
\* fs::write leaves the file as it was or truncated (no longer parsable).
HistoryWrite ==
    /\ pc = "write"
    /\ Polled
    /\ \/ /\ file' = JsonFile(entries)
          /\ io' = Append(io, "write")
          /\ UNCHANGED warned
       \/ /\ file' \in {file, CorruptFile}
          /\ io' = Append(io, "write")
          /\ warned' = TRUE
       \/ /\ warned' = TRUE
          /\ UNCHANGED <<file, io>>
    /\ printed' = Render(entries)
    /\ result' = "ok"
    /\ pc' = "done"
    /\ UNCHANGED <<device, cmd, config, update_file, start_with, resume, cached,
                   entries, update, readOutcome, calls, fresh, skipAhead>>
    /\ UNCHANGED <<loopVars, notifyVars>>

----
\* Command::run, the other commands.

\* Lines 226-227 and 241-242: the configuration check of sync, write-config.
ConfigBegin ==
    /\ pc = "cmd"
    /\ Polled
    /\ cmd \in {"sync", "write-config"}
    /\ IF ~RequireConfig(config)
       THEN /\ result' = "err_config"
            /\ pc' = "done"
       ELSE /\ pc' = "call"
            /\ UNCHANGED result
    /\ UNCHANGED <<device, file, cmd, config, update_file, start_with, resume,
                   cached, entries, update, readOutcome, calls, io, warned,
                   printed, fresh, skipAhead>>
    /\ UNCHANGED <<loopVars, notifyVars>>

\* Lines 105-107, 172-177, 218-225, 230-240: the command's device call is
\* awaited ("Setting time to" is printed before set_time is called).
SimpleBegin ==
    /\ pc = "cmd"
    /\ Polled
    /\ cmd \in SimpleCommands
    /\ printed' = IF cmd = "time --set" THEN <<[kind |-> "now", entries |-> <<>>]>>
                  ELSE printed
    /\ pc' = "call"
    /\ UNCHANGED <<device, file, cmd, config, update_file, start_with, resume,
                   cached, entries, update, readOutcome, result, calls, io,
                   warned, fresh, skipAhead>>
    /\ UNCHANGED <<loopVars, notifyVars>>

\* The device call of a single-call command resolves.
DeviceCall ==
    /\ pc = "call"
    /\ Polled
    /\ calls' = Append(calls, Call(DeviceOp(cmd), 0))
    /\ \/ /\ result' = "err_transport"
          /\ UNCHANGED printed
       \/ /\ result' = "ok"
          /\ printed' = IF cmd \in PrintingCommands \ {"time --set"}
                        THEN Append(printed, [kind |-> cmd, entries |-> <<>>])
                        ELSE printed
    /\ pc' = "done"
    /\ UNCHANGED <<device, file, cmd, config, update_file, start_with, resume,
                   cached, entries, update, readOutcome, io, warned, fresh,
                   skipAhead>>
    /\ UNCHANGED <<loopVars, notifyVars>>

----
\* Command::run, Notify (lines 178-217).

LaunchNotify ==
    /\ pc = "idle"
    /\ cmd' = "notify"
    /\ config' \in BOOLEAN
    /\ subs' \in SUBSET {NotifyFlags[i] : i \in 1..Len(NotifyFlags)}
    /\ pc' = "cmd"
    /\ logged' = <<"info: connected">>
    /\ UNCHANGED <<device, file, update_file, start_with, resume, cached, entries,
                   update, readOutcome, result, calls, io, warned, printed,
                   fresh, skipAhead, exit, winner, bg, armed, feed, stream>>

\* Lines 184-195: the subscription of the next enabled flag resolves; an
\* error is returned with `?`.
NotifySubscribe ==
    /\ pc \in {"cmd", "subscribe"}
    /\ Polled
    /\ cmd = "notify"
    /\ Len(calls) < Len(SubOrder(subs))
    /\ LET op == SubscribeOp(SubOrder(subs)[Len(calls) + 1])
       IN  /\ calls' = Append(calls, Call(op, 0))
           /\ \/ /\ armed' = armed \cup {Arms(op)}
                 /\ pc' = "subscribe"
                 /\ UNCHANGED result
              \/ /\ result' = "err_transport"
                 /\ pc' = "done"
                 /\ UNCHANGED armed
    /\ UNCHANGED <<device, file, cmd, config, update_file, start_with, resume,
                   cached, entries, update, readOutcome, io, warned, printed,
                   fresh, skipAhead, loopVars, subs, feed, stream>>

\* Line 197: event_stream() resolves after the last subscription.
NotifyOpenStream ==
    /\ pc \in {"cmd", "subscribe"}
    /\ Polled
    /\ cmd = "notify"
    /\ Len(calls) = Len(SubOrder(subs))
    /\ calls' = Append(calls, Call("event_stream", 0))
    /\ \/ /\ stream' = "open"
          /\ pc' = "stream"
          /\ UNCHANGED result
       \/ /\ result' = "err_transport"
          /\ pc' = "done"
          /\ UNCHANGED stream
    /\ UNCHANGED <<device, file, cmd, config, update_file, start_with, resume,
                   cached, entries, update, readOutcome, io, warned, printed,
                   fresh, skipAhead, loopVars, subs, armed, feed>>

\* The cube sends an event of an armed class, or the connection is lost; the
\* event waits on the stream until the command takes it.
DeviceEmit ==
    /\ pc = "stream"
    /\ Polled
    /\ Len(feed) < MaxEvents
    /\ \E e \in EventKinds :
          /\ e = "Disconnected" \/ e \in armed
          /\ feed' = Append(feed, e)
    /\ UNCHANGED <<device, file, pc, cmd, config, update_file, start_with, resume,
                   cached, entries, update, readOutcome, result, calls, io,
                   warned, printed, fresh, skipAhead, loopVars, subs, armed,
                   stream>>

\* Lines 198-213: stream.next() resolves with the next event, which is printed;
\* Disconnected ends the loop and the command.
NotifyNext ==
    /\ pc = "stream"
    /\ Polled
    /\ Len(printed) < Len(feed)
    /\ LET e == feed[Len(printed) + 1]
       IN  /\ printed' = Append(printed, [kind |-> Handle(e), entries |-> <<>>])
           /\ IF EndsStream(e)
              THEN /\ result' = "ok"
                   /\ pc' = "done"
              ELSE UNCHANGED <<result, pc>>
    /\ UNCHANGED <<device, file, cmd, config, update_file, start_with, resume,
                   cached, entries, update, readOutcome, calls, io, warned,
                   fresh, skipAhead, loopVars, notifyVars>>

\* Line 214: stream.next() resolves with None, the stream has ended.
NotifyStreamEnd ==
    /\ pc = "stream"
    /\ Polled
    /\ Len(printed) = Len(feed)
    /\ result' = "ok"
    /\ pc' = "done"
    /\ UNCHANGED <<device, file, cmd, config, update_file, start_with, resume,
                   cached, entries, update, readOutcome, calls, io, warned,
                   printed, fresh, skipAhead, loopVars, notifyVars>>

----
\* main's select! (lines 267-281): the interrupt, the background task and the
\* command run concurrently; the branch that completes first is handled and
\* main returns.  An awaited operation takes effect in the step in which it
\* resolves.

\* Mutant: the interrupt makes main return an error.
Interrupt_ExitsWithError ==
    /\ pc \notin {"idle", "done"}
    /\ exit = "none"
    /\ winner' = "interrupt"
    /\ logged' = Append(logged, "info: shutting down")
    /\ exit' = "error"
    /\ UNCHANGED <<device, file, pc, cmd, config, update_file, start_with, resume,
                   cached, entries, update, readOutcome, result, calls, io,
                   warned, printed, fresh, skipAhead, bg, notifyVars>>

\* Lines 268-270 and 281: ctrl_c() resolves while the command is running.
Interrupt ==
    /\ pc \notin {"idle", "done"}
    /\ exit = "none"
    /\ winner' = "interrupt"
    /\ logged' = Append(logged, "info: shutting down")
    /\ exit' = ExitStatus("interrupt", "ok")
    /\ UNCHANGED <<device, file, pc, cmd, config, update_file, start_with, resume,
                   cached, entries, update, readOutcome, result, calls, io,
                   warned, printed, fresh, skipAhead, bg, notifyVars>>

\* Lines 271-275 and 281: the background task completes, with Ok or with an
\* error, while the command is running.
BackgroundExit ==
    /\ pc \notin {"idle", "done"}
    /\ exit = "none"
    /\ \E res \in {"ok", "err"} :
          /\ bg' = res
          /\ logged' = IF res = "err"
                    THEN Append(logged, "error: bluetooth session background task exited with error")
                    ELSE logged
          /\ exit' = ExitStatus("background", res)
    /\ winner' = "background"
    /\ UNCHANGED <<device, file, pc, cmd, config, update_file, start_with, resume,
                   cached, entries, update, readOutcome, result, calls, io,
                   warned, printed, fresh, skipAhead, notifyVars>>

\* Lines 276-278 and 281: Command::run has returned; `res?`.
CommandBranch ==
    /\ pc = "done"
    /\ exit = "none"
    /\ winner' = "command"
    /\ exit' = ExitStatus("command", result)
    /\ UNCHANGED <<device, file, pc, cmd, config, update_file, start_with, resume,
                   cached, entries, update, readOutcome, result, calls, io,
                   warned, printed, fresh, skipAhead, bg, logged, notifyVars>>

\* The process ends; the next run starts from a new process.
Exit ==
    /\ exit # "none"
    /\ pc' = "idle"
    /\ cmd' = "none"
    /\ config' = FALSE
    /\ update_file' = FALSE
    /\ start_with' = {}
    /\ resume' = 0
    /\ cached' = <<>>
    /\ entries' = <<>>
    /\ update' = <<>>
    /\ readOutcome' = "none"
    /\ result' = "running"
    /\ calls' = <<>>
    /\ io' = <<>>
    /\ warned' = FALSE
    /\ printed' = <<>>
    /\ exit' = "none"
    /\ winner' = "none"
    /\ bg' = "running"
    /\ logged' = <<>>
    /\ subs' = {}
    /\ armed' = {}
    /\ feed' = <<>>
    /\ stream' = "closed"
    /\ UNCHANGED <<device, file, fresh, skipAhead>>

Next ==
    \/ DeviceRecord
    \/ DeviceUpdateLast
    \/ Launch
    \/ HistoryBegin
    \/ HistoryReadCache
    \/ HistoryFetch
    \/ HistoryWrite
    \/ ConfigBegin
    \/ SimpleBegin
    \/ DeviceCall
    \/ Interrupt
    \/ BackgroundExit
    \/ CommandBranch
    \/ Exit

Spec == Init /\ [][Next]_vars

\* Every command of the tool, notify included, against a cube whose log does
\* not change: it has recorded nothing, or two entries of which the cache
\* file may hold the first.
InitCommands ==
    /\ device \in {<<>>, <<[id |-> 1, data |-> "a"], [id |-> 2, data |-> "a"]>>}
    /\ file \in {AbsentFile, CorruptFile, JsonFile(<<>>),
                  JsonFile(<<[id |-> 1, data |-> "a"]>>)}
    /\ pc = "idle"
    /\ cmd = "none"
    /\ config = FALSE
    /\ update_file = FALSE
    /\ start_with = {}
    /\ resume = 0
    /\ cached = <<>>
    /\ entries = <<>>
    /\ update = <<>>
    /\ readOutcome = "none"
    /\ result = "running"
    /\ calls = <<>>
    /\ io = <<>>
    /\ warned = FALSE
    /\ printed = <<>>
    /\ fresh = (file.kind = "absent" \/ file = JsonFile(<<>>))
    /\ skipAhead = FALSE
    /\ exit = "none"
    /\ winner = "none"
    /\ bg = "running"
    /\ logged = <<>>
    /\ subs = {}
    /\ armed = {}
    /\ feed = <<>>
    /\ stream = "closed"

NextCommands ==
    \/ Launch
    \/ LaunchNotify
    \/ HistoryBegin
    \/ HistoryReadCache
    \/ HistoryFetch
    \/ HistoryWrite
    \/ ConfigBegin
    \/ SimpleBegin
    \/ DeviceCall
    \/ NotifySubscribe
    \/ NotifyOpenStream
    \/ DeviceEmit
    \/ NotifyNext
    \/ NotifyStreamEnd
    \/ Interrupt
    \/ BackgroundExit
    \/ CommandBranch
    \/ Exit

SpecCommands == InitCommands /\ [][NextCommands]_vars

----
\* Properties of the history command.

StrictlyAscending(s) == \A i \in 1..(Len(s) - 1) : s[i].id < s[i + 1].id

\* The batch has been merged into the entries (line 141 has run).
Merged == cmd = "history" /\ (pc = "write" \/ (pc = "done" /\ result = "ok"))

\* The value of --start-with when one is given.
Override == CHOOSE k \in start_with : TRUE

\* The cache file holds every entry the cube has recorded up to the largest
\* id in the file.
GapFree ==
    \A i \in 1..Len(device) :
        device[i].id <= MaxOf(Ids(file.entries)) => device[i].id \in Ids(file.entries)

\* C1: whenever the cache as read and the fetched batch are each strictly
\* ascending by id, the merged entry list of the history command is strictly
\* ascending by id (hence holds no id twice), for every --start-with.
C1_MergedAscending ==
    (Merged /\ StrictlyAscending(cached) /\ StrictlyAscending(update))
        => StrictlyAscending(entries)

\* C2: a history run whose fetch returns no entries and that persists its
\* result leaves the cache file exactly as a previous run left it: the same
\* entries in the same order.
C2_EmptyFetchKeepsCache ==
    [][(pc = "write" /\ update = <<>> /\ file.kind = "json" /\ file'.kind = "json")
           => file' = file]_vars

\* C3 as stated: a cache file that was absent or empty before the first run
\* holds, after any sequence of history runs, every entry the cube recorded
\* up to the largest cached id.
C3_GapFreeAnyRuns == (fresh /\ file.kind = "json") => GapFree

\* C3 as amended: the same, provided no run was given a --start-with value
\* above the largest id of the cache it read (above 0 for an empty or absent
\* cache).
C3_GapFreeWithoutSkip == (fresh /\ ~skipAhead /\ file.kind = "json") => GapFree

\* A run that read a cache left by an earlier run, fetched new entries and
\* wrote them, with no --start-with above a cache so far.
C3_Witness ==
    /\ fresh
    /\ ~skipAhead
    /\ pc = "done"
    /\ io = <<"read", "write">>
    /\ ~warned
    /\ cached # <<>>
    /\ update # <<>>
    /\ Len(file.entries) = Len(device)
    /\ Len(file.entries) > Len(cached)

\* The resume point the claim C4 gives: the override, else the largest id
\* in the cache file, else 0.
C4_Expected ==
    IF start_with # {} THEN Override
    ELSE IF update_file /\ file.kind = "json" /\ file.entries # <<>>
         THEN MaxOf(Ids(file.entries))
         ELSE 0

C5_CacheTakesPrecedence ==
    (cmd = "history" /\ pc = "fetch" /\ start_with # {} /\ cached # <<>>)
        => resume = MaxOf(Ids(cached))

\* The entries of list s with id k.
WithId(s, k) == {i \in 1..Len(s) : s[i].id = k}

\* C6: every id that is both in the cache as read and in the fetched batch
\* occurs exactly once in the merged entries, with the batch's entry.
C6_Superseding ==
    Merged =>
        \A k \in Ids(cached) \cap Ids(update) :
            /\ Cardinality(WithId(entries, k)) = 1
            /\ \A i \in WithId(entries, k) : \E j \in WithId(update, k) :
                   entries[i] = update[j]

\* The scenario of the claim: cache [1, 2], batch [2 (new), 3].
C6_Witness ==
    /\ Merged
    /\ [i \in 1..Len(cached) |-> cached[i].id] = <<1, 2>>
    /\ NewIds(update) = <<2, 3>>
    /\ cached[2] # update[1]
    /\ entries = <<cached[1], update[1], update[2]>>

\* What the history command does on an empty cache, up to the write: no
\* error from the cache, the resume point is the override or 0, the merged
\* entries are exactly the batch.
EmptyCacheBehaviour ==
    /\ pc \in {"fetch", "write", "done"}
    /\ result \in {"running", "ok", "err_transport"}
    /\ resume = (IF start_with = {} THEN 0 ELSE Override)
    /\ calls # <<>> => calls = <<Call("read_history_since", resume)>>
    /\ Merged => entries = update

\* C7: a history run that has read a missing cache file behaves as one that
\* has read a cache file holding an empty list.
C7_MissingCacheIsEmpty ==
    (cmd = "history" /\ io = <<"read">>
        /\ (file.kind = "absent" \/ file = JsonFile(<<>>)))
        => EmptyCacheBehaviour

\* The scenario of the claim: no cache file, an override, a non-empty batch.
C7_Witness ==
    /\ cmd = "history"
    /\ io = <<"read">>
    /\ file.kind = "absent"
    /\ pc = "write"
    /\ start_with = {2}
    /\ update # <<>>
    /\ entries = update

\* C8: a history run that has read a cache file that does not parse has
\* ended with the parse error, without a device call and without a write.
C8_CorruptCacheFatal ==
    (cmd = "history" /\ io = <<"read">> /\ file.kind = "corrupt")
        => (pc = "done" /\ result = "err_parse" /\ calls = <<>>)

C8_Witness ==
    cmd = "history" /\ readOutcome = "parse_error" /\ pc = "done"

\* C9: once the cache file could not be updated, the history command has
\* ended successfully and has rendered the in-memory entries.
C9_WriteFailureNotFatal ==
    warned =>
        /\ pc = "done"
        /\ result = "ok"
        /\ printed = <<[kind |-> "history", entries |-> entries]>>

\* A failed write after a merge of cached and fetched entries.
C9_Witness ==
    /\ warned
    /\ pc = "done"
    /\ cached # <<>>
    /\ update # <<>>
    /\ file.kind = "corrupt"

\* C10: history, sync and write-config without a configuration make no
\* device call and no cache file access, and end with the configuration
\* error in their first step.
C10_ConfigMissingFailsFast ==
    (cmd \in ConfigCommands /\ ~config) =>
        /\ calls = <<>>
        /\ io = <<>>
        /\ pc # "cmd" => (pc = "done" /\ result = "err_config")

C10_Witness ==
    cmd = "history" /\ update_file /\ ~config /\ pc = "done" /\ result = "err_config"

----
\* Properties of the run loop.

\* The command would have returned an error in its next step.
WouldFail == cmd \in ConfigCommands /\ ~config /\ pc = "cmd"

\* C11: when the interrupt is the first branch to complete, main returns
\* success, whatever the command was about to return.
C11_InterruptExitsOk == winner = "interrupt" => exit = "ok"

\* The interrupt won against a command that was about to fail.
C11_Witness == winner = "interrupt" /\ WouldFail /\ exit = "ok"

\* C12: when the command is the first branch to complete, main returns the
\* command's result: an error iff the command returned an error.
C12_CommandResultIsExit ==
    winner = "command" =>
        /\ result # "running"
        /\ exit = (IF result = "ok" THEN "ok" ELSE "error")

\* The command won with a transport error, which main returned.
C12_Witness == winner = "command" /\ result = "err_transport" /\ exit = "error"

\* C13 as stated: a background task that completes first with an error makes
\* main return an error, and main returns success only after an interrupt or
\* a successful completion.
C13_WinnerErrorIsExit ==
    /\ (winner = "background" /\ bg = "err") => exit = "error"
    /\ exit = "ok" => \/ winner = "interrupt"
                      \/ winner = "command" /\ result = "ok"
                      \/ winner = "background" /\ bg = "ok"

\* C13 as amended: main returns an error exactly when the command completed
\* first with an error; a background task that completes first, with or
\* without an error, makes main return success like an interrupt.
C13_OnlyCommandErrorIsExit ==
    /\ exit = "error" <=> (winner = "command" /\ result \notin {"ok", "running"})
    /\ winner \in {"interrupt", "background"} => exit = "ok"
    /\ exit = "none" <=> winner = "none"

\* The background task completed first with an error: logged, exit success.
C13_Witness ==
    /\ winner = "background"
    /\ bg = "err"
    /\ exit = "ok"
    /\ logged[Len(logged)] = "error: bluetooth session background task exited with error"

\* An error entry is in the log.
ErrorLogged == \E i \in 1..Len(logged) : logged[i] # "info: connected" /\ logged[i] # "info: shutting down"

\* C14: whenever the background task is the first branch to complete, with
\* or without an error value, an error entry has been logged.
C14_BackgroundExitLogged == winner = "background" => ErrorLogged

----
\* Properties of the notify command.

\* The subscription request each flag of the SubscriptionSet stands for.
FlagRequest ==
    [battery |-> "subscribe_battery_level", facet |-> "subscribe_facet",
     double_tap |-> "subscribe_double_tap", log_event |-> "subscribe_events"]

\* How often a device operation has been called in this run.
CountOp(op) == Cardinality({i \in 1..Len(calls) : calls[i].op = op})

SubscriptionsThenStream ==
    cmd = "notify" =>
        /\ \A f \in DOMAIN FlagRequest :
              /\ CountOp(FlagRequest[f]) <= 1
              /\ f \notin subs => CountOp(FlagRequest[f]) = 0
        /\ \A i \in 1..Len(calls) :
              calls[i].op = "event_stream" =>
                  /\ i = Len(calls)
                  /\ \A f \in subs : CountOp(FlagRequest[f]) = 1
        /\ stream = "open" => CountOp("event_stream") = 1
        /\ result = "err_transport" => stream = "closed" /\ pc = "done"

\* C15: the notify command issues one subscription request per enabled flag
\* and none for a disabled flag, all of them before event_stream; once a
\* request has failed the command is over with that error, it makes no
\* further device call and the stream stays closed.
C15_SubscribeBeforeStream ==
    [][/\ SubscriptionsThenStream'
       /\ (cmd = "notify" /\ result = "err_transport" /\ pc' # "idle") =>
              /\ calls' = calls
              /\ stream' = "closed"
              /\ result' = "err_transport"]_vars

\* The second of three subscriptions failed: the third was never requested
\* and the stream was never opened.
C15_Witness ==
    /\ cmd = "notify"
    /\ Cardinality(subs) = 3
    /\ result = "err_transport"
    /\ Len(calls) = 2
    /\ CountOp("event_stream") = 0
    /\ stream = "closed"

\* The line printed for each kind of event.
Shown ==
    [BatteryLevel |-> "Battery Level", Event |-> "event",
     Facet |-> "Currently Up", DoubleTap |-> "Facet has",
     Disconnected |-> "TimeFlip has disconnected"]

\* Position of the first Disconnected among the delivered events, or the
\* number of delivered events when there is none.
FirstDisconnected ==
    LET at == {i \in 1..Len(feed) : feed[i] = "Disconnected"}
    IN  IF at = {} THEN Len(feed) ELSE CHOOSE i \in at : \A j \in at : i <= j

HandledInOrder ==
    /\ Len(printed) <= FirstDisconnected
    /\ \A i \in 1..Len(printed) : printed[i].kind = Shown[feed[i]]

\* C16: the events the notify command has printed are a prefix, in delivery
\* order, of the delivered events up to and including the first Disconnected;
\* once Disconnected is printed the command has completed successfully.
C16_HandlesPrefixToDisconnected ==
    cmd = "notify" =>
        /\ HandledInOrder
        /\ (Len(printed) > 0 /\ feed[Len(printed)] = "Disconnected") =>
              pc = "done" /\ result = "ok"
        /\ result = "ok" => Len(printed) = FirstDisconnected

\* An event was delivered after Disconnected and was not handled.
C16_Witness ==
    /\ cmd = "notify"
    /\ feed = <<"Facet", "Disconnected", "Facet">>
    /\ Len(printed) = 2
    /\ printed[2].kind = "TimeFlip has disconnected"
    /\ result = "ok"
    /\ winner = "command"
    /\ exit = "ok"

\* C17: with only battery enabled, the notify command prints only battery
\* level and disconnect events, in arrival order, the disconnect last.
C17_BatteryOnly ==
    (cmd = "notify" /\ subs = {"battery"}) =>
        /\ HandledInOrder
        /\ \A i \in 1..Len(printed) :
              /\ printed[i].kind \in {"Battery Level", "TimeFlip has disconnected"}
              /\ printed[i].kind = "TimeFlip has disconnected" => i = Len(printed)

C17_Witness ==
    /\ cmd = "notify"
    /\ subs = {"battery"}
    /\ Len(printed) = 3
    /\ printed[1].kind = "Battery Level"
    /\ printed[2].kind = "Battery Level"
    /\ printed[3].kind = "TimeFlip has disconnected"

----
\* Properties of the run loop and the command together.

\* What a step of the command changes: its device calls, its file
\* operations, the cache file, its output and its result.
commandVars == <<pc, calls, io, file, printed, warned, result, stream, armed>>

----
\* Properties of the cache file over runs.

\* The entries of a sequence, as a set.
Range(s) == {s[i] : i \in 1..Len(s)}

C20_CacheWrittenOnceAfterFetch ==
    [][(file' # file \/ io' = Append(io, "write")) =>
          /\ cmd = "history"
          /\ update_file
          /\ exit = "none"
          /\ result = "running"
          /\ calls = <<Call("read_history_since", resume)>>
          /\ ~Contains(io, "write")]_vars

\* The one write of a run: the cache held the first entry, the file now
\* holds both.
C20_Witness ==
    /\ cmd = "history"
    /\ update_file
    /\ io = <<"read", "write">>
    /\ Len(cached) = 1
    /\ Len(entries) = 2
    /\ file = JsonFile(entries)
    /\ calls = <<Call("read_history_since", 1)>>

====
